---- MODULE Spec2Model ----
(***************************************************************************)
(* Model of pereskokovae/seller-apis: seller.py (Ozon) and market.py       *)
(* (Yandex Market).  Both scripts reconcile the vendor's remnants list     *)
(* with a marketplace catalog (create_stocks, create_prices), cut the      *)
(* result into batches (divide) and push the batches (update_stocks,       *)
(* update_price).                                                          *)
(*                                                                         *)
(* Texts (quantity and price cells) are sequences of one-character         *)
(* strings, so that comparisons, int() and price_conversion are computed  *)
(* character by character.  Python lists are sequences.                    *)
(***************************************************************************)
EXTENDS Integers, Sequences, FiniteSets, TLC

VARIABLES
    watch_remnants, \* list of rows returned by download_stock
    catalog,        \* per target, the offer ids of the catalog items, in listing order
    offer_ids,      \* the list object built by get_offer_ids and handed to create_*
    warehouse_id,   \* market.create_stocks argument
    clock,          \* wall clock, in ticks (TicksPerSecond ticks to a second)
    variant,        \* which module's functions run: "seller" or "market"
    stocks,         \* outcome of the last create_stocks call
    prices,         \* outcome of the last create_prices call
    first_stocks,   \* outcome of the create_stocks call of the first reconciliation
    first_prices,   \* outcome of the create_prices call of the first reconciliation
    called_at,      \* clock reading at the last create_stocks call
    first_called_at,\* clock reading at the create_stocks call of the first reconciliation
    pc,             \* position of the running script or driver
    campaign,       \* main: the target being synchronized
    batches,        \* main: the chunks of list(divide(...)) not yet pushed
    sent_stocks,    \* per target, the batches passed to update_stocks, in order
    sent_prices,    \* per target, the batches passed to update_price, in order
    failed,         \* main: the exception that ended the run, "" when none
    pending,        \* coroutine objects created and never run
    d_lst,          \* divide: the list argument lst
    d_n,            \* divide: the chunk size argument n
    d_pos,          \* divide: the generator's position in range(0, len(lst), n)
    chunks,         \* divide: the chunks yielded by the generator so far
    first_chunks    \* divide: the chunks yielded by a first, exhausted generator

twice_vars == <<first_stocks, first_prices, called_at, first_called_at>>
run_vars == <<campaign, batches, sent_stocks, sent_prices, failed, pending>>
divide_vars == <<d_lst, d_n, d_pos, chunks, first_chunks>>

vars == <<watch_remnants, catalog, offer_ids, warehouse_id, clock, variant,
          stocks, prices, pc, twice_vars, run_vars, divide_vars>>

----------------------------------------------------------------------------
(* Bounds of the model.                                                    *)

MaxRemnants == 2
MaxOffers == 2
MaxClock == 2
MaxLen == 5
MaxN == 3
TicksPerSecond == 2
MaxQtyLen == 3
MaxPriceLen == 3

----------------------------------------------------------------------------
(* Input values.                                                           *)

Codes == {"A", "B", "C"}
RemnantCodes == {"A", "B"}
WarehouseIds == {"WH_FBS", "WH_DBS"}

\* (quantity cell, price cell) pairs of the rows drawn for the remnants
Cells ==
    { << <<">", "1", "0">>,  <<"5", "'", "9", "9", "0", ".", "0", "0", " ", "p", ".">> >>,
      << <<"1">>,            <<"1", "2", ".", "5", "0">> >>,
      << <<"7">>,            <<"1", "0", "0">> >>,
      << <<"x">>,            <<".", "5", "0">> >> }

Rows == { [code |-> c, quantity |-> q[1], price |-> q[2]] : c \in RemnantCodes, q \in Cells }

SeqsUpTo(S, n) == UNION { [1..k -> S] : k \in 0..n }

----------------------------------------------------------------------------
(* Python list and str primitives.                                         *)

Range(s) == { s[i] : i \in 1..Len(s) }

\* x in lst
In(x, lst) == \E i \in 1..Len(lst) : lst[i] = x

\* lst.remove(x): drops the first occurrence of x (x is known to be in lst)
Remove(lst, x) ==
    LET k == CHOOSE i \in 1..Len(lst) : lst[i] = x /\ \A j \in 1..(i - 1) : lst[j] # x
    IN  [i \in 1..(Len(lst) - 1) |-> IF i < k THEN lst[i] ELSE lst[i + 1]]

Digits == {"0", "1", "2", "3", "4", "5", "6", "7", "8", "9"}

DigitValue(d) ==
    CASE d = "0" -> 0 [] d = "1" -> 1 [] d = "2" -> 2 [] d = "3" -> 3 [] d = "4" -> 4
      [] d = "5" -> 5 [] d = "6" -> 6 [] d = "7" -> 7 [] d = "8" -> 8 [] d = "9" -> 9

\* int(text) accepts an optional sign followed by one or more digits
\* (surrounding blanks and underscores, which int() also accepts, are not drawn)
IsInt(text) ==
    LET body == IF Len(text) > 0 /\ text[1] \in {"+", "-"} THEN Tail(text) ELSE text
    IN  Len(body) > 0 /\ \A i \in 1..Len(body) : body[i] \in Digits

RECURSIVE DigitsValue(_)
DigitsValue(body) ==
    IF body = <<>> THEN 0
    ELSE 10 * DigitsValue(SubSeq(body, 1, Len(body) - 1)) + DigitValue(body[Len(body)])

IntOf(text) ==
    IF text[1] = "-" THEN 0 - DigitsValue(Tail(text))
    ELSE IF text[1] = "+" THEN DigitsValue(Tail(text))
    ELSE DigitsValue(text)

\* price.split(".")[0]: the text before the first "."
RECURSIVE BeforeDot(_)
BeforeDot(text) ==
    IF text = <<>> \/ text[1] = "." THEN <<>>
    ELSE <<text[1]>> \o BeforeDot(Tail(text))

\* re.sub("[^0-9]", "", text)
RECURSIVE OnlyDigits(_)
OnlyDigits(text) ==
    IF text = <<>> THEN <<>>
    ELSE (IF text[1] \in Digits THEN <<text[1]>> ELSE <<>>) \o OnlyDigits(Tail(text))

\* faulty variant: the fractional part is not cut off
price_conversion_whole_text(price) == OnlyDigits(price)

price_conversion(price) == OnlyDigits(BeforeDot(price))

\* str(utcnow().replace(microsecond=0).isoformat() + "Z"): the clock cut to whole seconds
Date(ticks) == ticks \div TicksPerSecond

----------------------------------------------------------------------------
(* Outcome of a call: the value it returns, or raised when an exception    *)
(* leaves it, and the state in which it leaves the offer_ids list object.  *)

Returned(value, ids) == [raised |-> FALSE, value |-> value, offer_ids |-> ids]
Raised(ids) == [raised |-> TRUE, value |-> <<>>, offer_ids |-> ids]
NotCalled == [raised |-> FALSE, value |-> <<>>, offer_ids |-> <<>>]

\* the three-way rule on the text of the quantity cell
CountIsValid(count) == count = <<">", "1", "0">> \/ count = <<"1">> \/ IsInt(count)

\* faulty variant: the text "1" is taken at its value
StockOf_one_is_one(count) ==
    IF count = <<">", "1", "0">> THEN 100
    ELSE IntOf(count)

StockOf(count) ==
    IF count = <<">", "1", "0">> THEN 100
    ELSE IF count = <<"1">> THEN 0
    ELSE IntOf(count)

----------------------------------------------------------------------------
(* seller.py                                                               *)

SellerStock(offer_id, stock) == [offer_id |-> offer_id, stock |-> stock]

SellerPrice(offer_id, price) ==
    [auto_action_enabled |-> "UNKNOWN", currency_code |-> "RUB",
     offer_id |-> offer_id, old_price |-> "0", price |-> price]

\* first loop of create_stocks, from row i on
RECURSIVE SellerMatchLoop(_, _, _, _)
SellerMatchLoop(remnants, i, acc, ids) ==
    IF i > Len(remnants) THEN Returned(acc, ids)
    ELSE LET watch == remnants[i] IN
         IF In(watch.code, ids)
         THEN IF CountIsValid(watch.quantity)
              THEN SellerMatchLoop(remnants, i + 1,
                       Append(acc, SellerStock(watch.code, StockOf(watch.quantity))),
                       Remove(ids, watch.code))
              ELSE Raised(ids)
         ELSE SellerMatchLoop(remnants, i + 1, acc, ids)

\* second loop of create_stocks: one zero entry per id left in offer_ids
SellerZeros(ids) == [i \in 1..Len(ids) |-> SellerStock(ids[i], 0)]

\* faulty variant: the zero entries are put before the matched ones
seller_create_stocks_zeros_first(remnants, ids) ==
    LET m == SellerMatchLoop(remnants, 1, <<>>, ids)
    IN  IF m.raised THEN m
        ELSE Returned(SellerZeros(m.offer_ids) \o m.value, m.offer_ids)

seller_create_stocks(remnants, ids) ==
    LET m == SellerMatchLoop(remnants, 1, <<>>, ids)
    IN  IF m.raised THEN m
        ELSE Returned(m.value \o SellerZeros(m.offer_ids), m.offer_ids)

RECURSIVE SellerPriceLoop(_, _, _, _)
SellerPriceLoop(remnants, i, acc, ids) ==
    IF i > Len(remnants) THEN Returned(acc, ids)
    ELSE LET watch == remnants[i] IN
         IF In(watch.code, ids)
         THEN SellerPriceLoop(remnants, i + 1,
                  Append(acc, SellerPrice(watch.code, price_conversion(watch.price))), ids)
         ELSE SellerPriceLoop(remnants, i + 1, acc, ids)

\* faulty variant: the rows are not filtered by offer_ids
seller_create_prices_unfiltered(remnants, ids) ==
    Returned([i \in 1..Len(remnants) |->
                 SellerPrice(remnants[i].code, price_conversion(remnants[i].price))], ids)

seller_create_prices(remnants, ids) == SellerPriceLoop(remnants, 1, <<>>, ids)

----------------------------------------------------------------------------
(* market.py                                                               *)

MarketStock(sku, warehouse, count, date) ==
    [sku |-> sku, warehouseId |-> warehouse,
     items |-> << [count |-> count, type |-> "FIT", updatedAt |-> date] >>]

MarketPrice(id, value) == [id |-> id, price |-> [value |-> value, currencyId |-> "RUR"]]

RECURSIVE MarketMatchLoop(_, _, _, _, _, _)
MarketMatchLoop(remnants, i, acc, ids, warehouse, date) ==
    IF i > Len(remnants) THEN Returned(acc, ids)
    ELSE LET watch == remnants[i] IN
         IF In(watch.code, ids)
         THEN IF CountIsValid(watch.quantity)
              THEN MarketMatchLoop(remnants, i + 1,
                       Append(acc, MarketStock(watch.code, warehouse,
                                               StockOf(watch.quantity), date)),
                       Remove(ids, watch.code), warehouse, date)
              ELSE Raised(ids)
         ELSE MarketMatchLoop(remnants, i + 1, acc, ids, warehouse, date)

MarketZeros(ids, warehouse, date) ==
    [i \in 1..Len(ids) |-> MarketStock(ids[i], warehouse, 0, date)]

\* now: the clock reading taken by utcnow() on entry
market_create_stocks(remnants, ids, warehouse, now) ==
    LET date == Date(now)
        m == MarketMatchLoop(remnants, 1, <<>>, ids, warehouse, date)
    IN  IF m.raised THEN m
        ELSE Returned(m.value \o MarketZeros(m.offer_ids, warehouse, date), m.offer_ids)

RECURSIVE MarketPriceLoop(_, _, _, _)
MarketPriceLoop(remnants, i, acc, ids) ==
    IF i > Len(remnants) THEN Returned(acc, ids)
    ELSE LET watch == remnants[i] IN
         IF In(watch.code, ids)
         THEN LET text == price_conversion(watch.price) IN
              IF IsInt(text)
              THEN MarketPriceLoop(remnants, i + 1,
                       Append(acc, MarketPrice(watch.code, IntOf(text))), ids)
              ELSE Raised(ids)
         ELSE MarketPriceLoop(remnants, i + 1, acc, ids)

\* faulty variant: the list of prices outlives the call and keeps the entries of the last one
market_create_prices_accumulating(remnants, ids) ==
    LET out == MarketPriceLoop(remnants, 1, prices.value, ids)
    IN  out

market_create_prices(remnants, ids) == MarketPriceLoop(remnants, 1, <<>>, ids)

\* the two modules' functions behind one signature
create_stocks(v, remnants, ids, warehouse, now) ==
    IF v = "seller" THEN seller_create_stocks(remnants, ids)
    ELSE market_create_stocks(remnants, ids, warehouse, now)

create_prices(v, remnants, ids) ==
    IF v = "seller" THEN seller_create_prices(remnants, ids)
    ELSE market_create_prices(remnants, ids)

\* field access that does not depend on the record shape
StockId(v, e) == IF v = "seller" THEN e.offer_id ELSE e.sku
StockQty(v, e) == IF v = "seller" THEN e.stock ELSE e.items[1].count
PriceId(v, e) == IF v = "seller" THEN e.offer_id ELSE e.id

----------------------------------------------------------------------------
(* Reconciliation applied to drawn inputs: create_stocks and create_prices *)
(* are each called on a fresh copy of the catalog's offer ids, once, and   *)
(* after some time a second time with the same arguments.                  *)

Targets == {"OZON", "FBS", "DBS"}

TargetOf(v) == IF v = "seller" THEN "OZON" ELSE "FBS"

\* the variables a specification does not use keep these values
TwiceIdle ==
    /\ first_stocks = NotCalled
    /\ first_prices = NotCalled
    /\ called_at = 0
    /\ first_called_at = 0

RunIdle ==
    /\ campaign = "none"
    /\ batches = <<>>
    /\ sent_stocks = [t \in Targets |-> <<>>]
    /\ sent_prices = [t \in Targets |-> <<>>]
    /\ failed = ""
    /\ pending = <<>>

DivideIdle ==
    /\ d_lst = <<>>
    /\ d_n = 1
    /\ d_pos = 0
    /\ chunks = <<>>
    /\ first_chunks = <<>>

InitReconcile ==
    /\ watch_remnants \in SeqsUpTo(Rows, MaxRemnants)
    /\ \E ids \in SeqsUpTo(Codes, MaxOffers) : catalog = [t \in Targets |-> ids]
    /\ variant \in {"seller", "market"}
    /\ offer_ids = <<>>
    /\ warehouse_id = "none"
    /\ clock = 0
    /\ stocks = NotCalled
    /\ prices = NotCalled
    /\ TwiceIdle
    /\ RunIdle
    /\ DivideIdle
    /\ pc = "r1_stocks"

\* stocks = create_stocks(watch_remnants, copy of the catalog's ids [, warehouse_id])
CallCreateStocks ==
    /\ pc \in {"r1_stocks", "r2_stocks"}
    /\ \E w \in WarehouseIds :
        /\ IF variant = "market" /\ pc = "r1_stocks"
           THEN warehouse_id' = w
           ELSE warehouse_id' = warehouse_id
        /\ LET out == create_stocks(variant, watch_remnants, catalog[TargetOf(variant)],
                                    warehouse_id', clock)
           IN  /\ stocks' = out
               /\ offer_ids' = out.offer_ids
    /\ called_at' = clock
    /\ pc' = IF pc = "r1_stocks" THEN "r1_prices" ELSE "r2_prices"
    /\ UNCHANGED <<watch_remnants, catalog, clock, variant, prices, first_stocks, first_prices,
                   first_called_at, run_vars, divide_vars>>

\* prices = create_prices(watch_remnants, copy of the catalog's ids)
CallCreatePrices ==
    /\ pc \in {"r1_prices", "r2_prices"}
    /\ LET out == create_prices(variant, watch_remnants, catalog[TargetOf(variant)])
       IN  /\ prices' = out
           /\ offer_ids' = out.offer_ids
    /\ pc' = IF pc = "r1_prices" THEN "between" ELSE "end"
    /\ UNCHANGED <<watch_remnants, catalog, warehouse_id, clock, variant, stocks,
                   twice_vars, run_vars, divide_vars>>

\* time passes between the two reconciliations
Tick ==
    /\ pc = "between"
    /\ clock < MaxClock
    /\ clock' = clock + 1
    /\ UNCHANGED <<watch_remnants, catalog, offer_ids, warehouse_id, variant, stocks, prices,
                   pc, twice_vars, run_vars, divide_vars>>

\* the outputs of the first reconciliation are kept and the second one starts
Again ==
    /\ pc = "between"
    /\ first_stocks' = stocks
    /\ first_prices' = prices
    /\ first_called_at' = called_at
    /\ pc' = "r2_stocks"
    /\ UNCHANGED <<watch_remnants, catalog, offer_ids, warehouse_id, clock, variant,
                   stocks, prices, called_at, run_vars, divide_vars>>

NextReconcile == CallCreateStocks \/ CallCreatePrices \/ Tick \/ Again

SpecReconcile == InitReconcile /\ [][NextReconcile]_vars

----------------------------------------------------------------------------
(* Vocabulary of the properties of the reconciliation.                     *)

Cat == catalog[TargetOf(variant)]
CatIds == Range(Cat)
RemCodes == { watch_remnants[i].code : i \in 1..Len(watch_remnants) }

\* create_stocks has just returned: offer_ids is the list it was given
StocksJustReturned == pc \in {"r1_prices", "r2_prices"} /\ ~stocks.raised
\* create_prices has just returned: offer_ids is the list it was given
PricesJustReturned == pc \in {"between", "end"} /\ ~prices.raised
\* both lists of one reconciliation are there
BothReturned == pc \in {"between", "end"} /\ ~stocks.raised /\ ~prices.raised

StockIdxOf(id) == { i \in 1..Len(stocks.value) : StockId(variant, stocks.value[i]) = id }
PriceIdxOf(id) == { i \in 1..Len(prices.value) : PriceId(variant, prices.value[i]) = id }
RowIdxOf(code) == { i \in 1..Len(watch_remnants) : watch_remnants[i].code = code }
FirstRow(code) == CHOOSE i \in RowIdxOf(code) : \A j \in RowIdxOf(code) : i <= j

PriceOf(v, e) == IF v = "seller" THEN e.price ELSE e.price.value
\* the price a row is expected to give
ExpectedPrice(v, text) ==
    IF v = "seller" THEN price_conversion(text) ELSE IntOf(price_conversion(text))

Increasing(f) == \A i, j \in DOMAIN f : i < j => f[i] < f[j]

\* number of matched entries: the stocks minus one zero entry per id left in offer_ids
MatchedCount == Len(stocks.value) - Len(stocks.offer_ids)

\* C3: create_stocks returns exactly one StockEntry per distinct downstream offer id and
\* none for any other code; the length is |codes in both| + |offer ids without remnant|.
C3_OneStockPerOfferId ==
    StocksJustReturned =>
        /\ \A id \in CatIds : Cardinality(StockIdxOf(id)) = 1
        /\ \A i \in 1..Len(stocks.value) : StockId(variant, stocks.value[i]) \in CatIds
        /\ Len(stocks.value) = Cardinality(RemCodes \cap CatIds)
                               + Cardinality(CatIds \ RemCodes)

\* C4: create_prices returns exactly one PriceEntry per code that is both in remnants and
\* in offer_ids, built from the first row with that code, and the codes of the prices are,
\* in order, the codes of the matched StockEntries.
C4_OnePricePerMatchedCode ==
    BothReturned =>
        /\ \A code \in RemCodes \cap CatIds :
              /\ Cardinality(PriceIdxOf(code)) = 1
              /\ \A i \in PriceIdxOf(code) :
                    PriceOf(variant, prices.value[i])
                        = ExpectedPrice(variant, watch_remnants[FirstRow(code)].price)
        /\ \A i \in 1..Len(prices.value) :
              PriceId(variant, prices.value[i]) \in RemCodes \cap CatIds
        /\ [i \in 1..Len(prices.value) |-> PriceId(variant, prices.value[i])]
             = [i \in 1..MatchedCount |-> StockId(variant, stocks.value[i])]

\* C5: a code with several rows of different quantities that is in offer_ids gets one
\* StockEntry only, with the normalized quantity of its first row.
C5_FirstOccurrenceWins ==
    StocksJustReturned =>
        \A code \in RemCodes \cap CatIds :
            (\E i, j \in RowIdxOf(code) :
                 watch_remnants[i].quantity # watch_remnants[j].quantity)
            => /\ Cardinality(StockIdxOf(code)) = 1
               /\ \A i \in StockIdxOf(code) :
                     StockQty(variant, stocks.value[i])
                         = StockOf(watch_remnants[FirstRow(code)].quantity)

\* C6: an offer id that matches no remnant code gets a StockEntry, with quantity 0, and no
\* PriceEntry; every id in the price list is both in remnants and in offer_ids.
C6_UnmatchedZeroNoPrice ==
    /\ (pc # "r1_stocks" /\ ~stocks.raised) =>
          \A id \in CatIds \ RemCodes :
              /\ StockIdxOf(id) # {}
              /\ \A i \in StockIdxOf(id) : StockQty(variant, stocks.value[i]) = 0
    /\ PricesJustReturned =>
          /\ \A id \in CatIds \ RemCodes : PriceIdxOf(id) = {}
          /\ \A i \in 1..Len(prices.value) :
                PriceId(variant, prices.value[i]) \in RemCodes \cap CatIds

\* C6 witness: both lists returned, some offer id has no remnant, some price was built
C6_Witness ==
    /\ BothReturned
    /\ CatIds \ RemCodes # {}
    /\ Len(prices.value) > 0
    /\ \E i \in 1..Len(stocks.value) : StockQty(variant, stocks.value[i]) # 0

\* C7: the stocks are the matched entries, in the order of their rows, followed by the
\* zero entries of the ids left in offer_ids, in the order of offer_ids (which is their
\* order in the catalog).
C7_MatchedThenUnmatched ==
    StocksJustReturned =>
        LET s == stocks.value
            n == Len(s)
        IN  \E k \in 0..n :
               /\ \E f \in [1..k -> 1..Len(watch_remnants)] :
                     /\ Increasing(f)
                     /\ \A i \in 1..k :
                           /\ StockId(variant, s[i]) = watch_remnants[f[i]].code
                           /\ StockQty(variant, s[i]) = StockOf(watch_remnants[f[i]].quantity)
               /\ \E g \in [1..(n - k) -> 1..Len(Cat)] :
                     /\ Increasing(g)
                     /\ \A i \in 1..(n - k) :
                           /\ StockId(variant, s[k + i]) = Cat[g[i]]
                           /\ StockQty(variant, s[k + i]) = 0
               /\ offer_ids = [i \in 1..(n - k) |-> StockId(variant, s[k + i])]

\* C7 witness: a matched entry with stock precedes the zero entry of an id that stands
\* before it in the catalog
C7_Witness ==
    /\ StocksJustReturned
    /\ Len(stocks.value) >= 2
    /\ StockQty(variant, stocks.value[1]) # 0
    /\ StockId(variant, stocks.value[1]) = Cat[Len(Cat)]
    /\ StockId(variant, stocks.value[Len(stocks.value)]) = Cat[1]
    /\ StockId(variant, stocks.value[Len(stocks.value)]) \notin RemCodes

\* C8: after create_stocks no id whose code occurs in remnants is left in offer_ids, and
\* create_prices leaves offer_ids as it was passed.
C8_DrainedAndUnchanged ==
    /\ StocksJustReturned => \A i \in 1..Len(offer_ids) : offer_ids[i] \notin RemCodes
    /\ PricesJustReturned => offer_ids = Cat

\* C10 (as claimed): two reconciliations of the same inputs give identical stock
\* sequences and identical price sequences, whenever they run.
C10_SameOutputsAnyTime ==
    pc = "end" => stocks = first_stocks /\ prices = first_prices

EraseDate(v, e) ==
    IF v = "seller" THEN e
    ELSE [e EXCEPT !.items = << [e.items[1] EXCEPT !.updatedAt = 0] >>]

EraseDates(v, s) == [i \in 1..Len(s) |-> EraseDate(v, s[i])]

\* C10 (amended): the price sequences are identical; the stock sequences are identical up
\* to the updatedAt of the market entries, and identical when both create_stocks calls read
\* the same second (always so for seller, which reads no clock).
C10_SameOutputsUpToDate ==
    pc = "end" =>
        /\ prices = first_prices
        /\ stocks.raised = first_stocks.raised
        /\ stocks.offer_ids = first_stocks.offer_ids
        /\ EraseDates(variant, stocks.value) = EraseDates(variant, first_stocks.value)
        /\ (variant = "seller" \/ Date(called_at) = Date(first_called_at))
              => stocks = first_stocks

\* C10 witness: a second market reconciliation in a later second, with entries
C10_Witness ==
    /\ pc = "end"
    /\ variant = "market"
    /\ Date(called_at) # Date(first_called_at)
    /\ ~stocks.raised /\ Len(stocks.value) > 0
    /\ ~prices.raised /\ Len(prices.value) > 0

----------------------------------------------------------------------------
(* divide(lst, n): the generator, one chunk per step, and list(divide())   *)

Min(a, b) == IF a <= b THEN a ELSE b

Elements == {"p", "q"}

\* faulty variant: the slice takes one item more
Slice_one_more(l, i, j) == SubSeq(l, i + 1, Min(j + 1, Len(l)))

\* lst[i : j] for 0 <= i <= j (the slice stops at the end of the list)
Slice(l, i, j) == SubSeq(l, i + 1, Min(j, Len(l)))

\* list(divide(l, k)): the chunks for range(from, len(l), k)
RECURSIVE DivideFrom(_, _, _)
DivideFrom(l, k, from) ==
    IF from >= Len(l) THEN <<>>
    ELSE <<Slice(l, from, from + k)>> \o DivideFrom(l, k, from + k)

divide(l, k) == DivideFrom(l, k, 0)

InitDivide ==
    /\ d_lst \in SeqsUpTo(Elements, MaxLen)
    /\ d_n \in 1..MaxN
    /\ d_pos = 0
    /\ chunks = <<>>
    /\ first_chunks = <<>>
    /\ pc = "first"
    /\ watch_remnants = <<>>
    /\ catalog = [t \in Targets |-> <<>>]
    /\ offer_ids = <<>>
    /\ warehouse_id = "none"
    /\ clock = 0
    /\ variant = "none"
    /\ stocks = NotCalled
    /\ prices = NotCalled
    /\ TwiceIdle
    /\ RunIdle

\* next(generator): the loop body yields lst[i : i + n]
DivideYield ==
    /\ pc \in {"first", "second"}
    /\ d_pos < Len(d_lst)
    /\ chunks' = Append(chunks, Slice(d_lst, d_pos, d_pos + d_n))
    /\ d_pos' = d_pos + d_n
    /\ UNCHANGED <<d_lst, d_n, first_chunks, pc, watch_remnants, catalog, offer_ids,
                   warehouse_id, clock, variant, stocks, prices, twice_vars, run_vars>>

\* next(generator): range is exhausted, the generator stops
DivideStop ==
    /\ pc \in {"first", "second"}
    /\ d_pos >= Len(d_lst)
    /\ pc' = IF pc = "first" THEN "first_done" ELSE "second_done"
    /\ UNCHANGED <<divide_vars, watch_remnants, catalog, offer_ids,
                   warehouse_id, clock, variant, stocks, prices, twice_vars, run_vars>>

\* divide(lst, n) is called again on the same arguments: a new generator
DivideAgain ==
    /\ pc = "first_done"
    /\ first_chunks' = chunks
    /\ chunks' = <<>>
    /\ d_pos' = 0
    /\ pc' = "second"
    /\ UNCHANGED <<d_lst, d_n, watch_remnants, catalog, offer_ids,
                   warehouse_id, clock, variant, stocks, prices, twice_vars, run_vars>>

NextDivide == DivideYield \/ DivideStop \/ DivideAgain

SpecDivide == InitDivide /\ [][NextDivide]_vars

RECURSIVE Flatten(_)
Flatten(ss) == IF ss = <<>> THEN <<>> ELSE Head(ss) \o Flatten(Tail(ss))

\* C9: the chunks yielded so far are consecutive pieces of lst of n items each; when the
\* generator stops their concatenation is lst, only the last chunk may be shorter (1..n
\* items), an empty lst has given no chunk, and a second generator gives the same chunks.
C9_DivideChunks ==
    /\ pc \in {"first", "second", "first_done", "second_done"} =>
          /\ \A k \in 1..Len(chunks) :
                /\ 1 <= Len(chunks[k]) /\ Len(chunks[k]) <= d_n
                /\ k < Len(chunks) => Len(chunks[k]) = d_n
                /\ \A j \in 1..Len(chunks[k]) : chunks[k][j] = d_lst[(k - 1) * d_n + j]
          /\ Len(Flatten(chunks)) <= Len(d_lst)
    /\ pc \in {"first_done", "second_done"} =>
          /\ Flatten(chunks) = d_lst
          /\ d_lst = <<>> => chunks = <<>>
          /\ chunks = divide(d_lst, d_n)
    /\ pc = "second_done" => chunks = first_chunks

\* C9 witness: a second generator is exhausted after full chunks and a shorter last one
C9_Witness ==
    /\ pc = "second_done"
    /\ Len(chunks) >= 3
    /\ Len(chunks[Len(chunks)]) < d_n
    /\ chunks[1] # chunks[2]

----------------------------------------------------------------------------
(* The two scripts: seller.main and market.main.  The remnants published   *)
(* by the vendor and the catalogs of the marketplaces are drawn at the     *)
(* start; a request to a collaborator may fail at any call.                *)

\* chunk sizes of the loops in main
SellerStockBatch == 100
SellerPriceBatch == 900
MarketStockBatch == 2000

\* WAREHOUSE_FBS_ID, WAREHOUSE_DBS_ID
WarehouseOf(c) == IF c = "FBS" THEN "WH_FBS" ELSE "WH_DBS"

Init ==
    /\ watch_remnants \in SeqsUpTo(Rows, MaxRemnants)
    /\ variant \in {"seller", "market"}
    /\ \E a, b \in SeqsUpTo(Codes, MaxOffers) :
          catalog = IF variant = "seller"
                    THEN [t \in Targets |-> IF t = "OZON" THEN a ELSE <<>>]
                    ELSE [t \in Targets |-> IF t = "FBS" THEN a
                                            ELSE IF t = "DBS" THEN b ELSE <<>>]
    /\ pc = IF variant = "seller" THEN "s_get_offer_ids" ELSE "m_download_stock"
    /\ campaign = IF variant = "seller" THEN "OZON" ELSE "FBS"
    /\ offer_ids = <<>>
    /\ warehouse_id = "none"
    /\ clock = 0
    /\ stocks = NotCalled
    /\ prices = NotCalled
    /\ batches = <<>>
    /\ sent_stocks = [t \in Targets |-> <<>>]
    /\ sent_prices = [t \in Targets |-> <<>>]
    /\ failed = ""
    /\ pending = <<>>
    /\ TwiceIdle
    /\ DivideIdle

\* get_offer_ids: one element per item of the listing, in listing order
get_offer_ids(c) == [i \in 1..Len(catalog[c]) |-> catalog[c][i]]

\* seller.main: offer_ids = get_offer_ids(client_id, seller_token)
SellerGetOfferIds ==
    /\ pc = "s_get_offer_ids"
    /\ offer_ids' = get_offer_ids("OZON")
    /\ pc' = "s_download_stock"
    /\ UNCHANGED <<watch_remnants, catalog, warehouse_id, clock, variant, stocks, prices,
                   twice_vars, run_vars, divide_vars>>

\* seller.main: watch_remnants = download_stock()
SellerDownloadStock ==
    /\ pc = "s_download_stock"
    /\ pc' = "s_create_stocks"
    /\ UNCHANGED <<watch_remnants, catalog, offer_ids, warehouse_id, clock, variant, stocks,
                   prices, twice_vars, run_vars, divide_vars>>

\* seller.main: stocks = create_stocks(watch_remnants, offer_ids), then list(divide(stocks, 100))
SellerCreateStocks ==
    /\ pc = "s_create_stocks"
    /\ LET out == seller_create_stocks(watch_remnants, offer_ids)
       IN  /\ stocks' = out
           /\ offer_ids' = out.offer_ids
           /\ IF out.raised
              THEN /\ failed' = "ValueError"
                   /\ batches' = <<>>
                   /\ pc' = "done"
              ELSE /\ failed' = failed
                   /\ batches' = divide(out.value, SellerStockBatch)
                   /\ pc' = IF batches' = <<>> THEN "s_create_prices" ELSE "s_update_stocks"
    /\ UNCHANGED <<watch_remnants, catalog, warehouse_id, clock, variant, prices,
                   campaign, sent_stocks, sent_prices, pending, twice_vars, divide_vars>>

\* seller.main: update_stocks(some_stock, client_id, seller_token)
SellerUpdateStocks ==
    /\ pc = "s_update_stocks"
    /\ sent_stocks' = [sent_stocks EXCEPT !["OZON"] = Append(@, Head(batches))]
    /\ batches' = Tail(batches)
    /\ pc' = IF batches' = <<>> THEN "s_create_prices" ELSE "s_update_stocks"
    /\ UNCHANGED <<watch_remnants, catalog, offer_ids, warehouse_id, clock, variant, stocks,
                   prices, campaign, sent_prices, failed, pending, twice_vars, divide_vars>>

\* seller.main: prices = create_prices(watch_remnants, offer_ids), on the list object
\* that create_stocks was given, then list(divide(prices, 900))
SellerCreatePrices ==
    /\ pc = "s_create_prices"
    /\ LET out == seller_create_prices(watch_remnants, offer_ids)
       IN  /\ prices' = out
           /\ offer_ids' = out.offer_ids
           /\ batches' = divide(out.value, SellerPriceBatch)
           /\ pc' = IF batches' = <<>> THEN "done" ELSE "s_update_price"
    /\ UNCHANGED <<watch_remnants, catalog, warehouse_id, clock, variant, stocks,
                   campaign, sent_stocks, sent_prices, failed, pending, twice_vars, divide_vars>>

\* seller.main: update_price(some_price, client_id, seller_token)
SellerUpdatePrice ==
    /\ pc = "s_update_price"
    /\ sent_prices' = [sent_prices EXCEPT !["OZON"] = Append(@, Head(batches))]
    /\ batches' = Tail(batches)
    /\ pc' = IF batches' = <<>> THEN "done" ELSE "s_update_price"
    /\ UNCHANGED <<watch_remnants, catalog, offer_ids, warehouse_id, clock, variant, stocks,
                   prices, campaign, sent_stocks, failed, pending, twice_vars, divide_vars>>

\* market.main: watch_remnants = download_stock()
MarketDownloadStock ==
    /\ pc = "m_download_stock"
    /\ pc' = "m_get_offer_ids"
    /\ UNCHANGED <<watch_remnants, catalog, offer_ids, warehouse_id, clock, variant, stocks,
                   prices, twice_vars, run_vars, divide_vars>>

\* market.main: offer_ids = get_offer_ids(campaign_id, market_token)
MarketGetOfferIds ==
    /\ pc = "m_get_offer_ids"
    /\ offer_ids' = get_offer_ids(campaign)
    /\ pc' = "m_create_stocks"
    /\ UNCHANGED <<watch_remnants, catalog, warehouse_id, clock, variant, stocks, prices,
                   twice_vars, run_vars, divide_vars>>

\* market.main: stocks = create_stocks(watch_remnants, offer_ids, warehouse_id), then
\* list(divide(stocks, 2000))
MarketCreateStocks ==
    /\ pc = "m_create_stocks"
    /\ warehouse_id' = WarehouseOf(campaign)
    /\ LET out == market_create_stocks(watch_remnants, offer_ids, warehouse_id', clock)
       IN  /\ stocks' = out
           /\ offer_ids' = out.offer_ids
           /\ IF out.raised
              THEN /\ failed' = "ValueError"
                   /\ batches' = <<>>
                   /\ pc' = "done"
              ELSE /\ failed' = failed
                   /\ batches' = divide(out.value, MarketStockBatch)
                   /\ pc' = IF batches' = <<>> THEN "m_upload_prices" ELSE "m_update_stocks"
    /\ UNCHANGED <<watch_remnants, catalog, clock, variant, prices,
                   campaign, sent_stocks, sent_prices, pending, twice_vars, divide_vars>>

\* market.main: update_stocks(some_stock, campaign_id, market_token)
MarketUpdateStocks ==
    /\ pc = "m_update_stocks"
    /\ sent_stocks' = [sent_stocks EXCEPT ![campaign] = Append(@, Head(batches))]
    /\ batches' = Tail(batches)
    /\ pc' = IF batches' = <<>> THEN "m_upload_prices" ELSE "m_update_stocks"
    /\ UNCHANGED <<watch_remnants, catalog, offer_ids, warehouse_id, clock, variant, stocks,
                   prices, campaign, sent_prices, failed, pending, twice_vars, divide_vars>>

\* market.main: upload_prices(watch_remnants, campaign_id, market_token).  upload_prices
\* is an async def and the call is not awaited: it builds a coroutine object and runs
\* none of the body, so neither create_prices nor update_price is called.
MarketUploadPrices ==
    /\ pc = "m_upload_prices"
    /\ pending' = Append(pending, campaign)
    /\ IF campaign = "FBS"
       THEN /\ campaign' = "DBS"
            /\ pc' = "m_get_offer_ids"
       ELSE /\ campaign' = campaign
            /\ pc' = "done"
    /\ UNCHANGED <<watch_remnants, catalog, offer_ids, warehouse_id, clock, variant, stocks,
                   prices, batches, sent_stocks, sent_prices, failed, twice_vars, divide_vars>>

\* a request of a collaborator raises (raise_for_status, timeout, connection error):
\* the except clauses of main end the run (download_stock in market.main is outside
\* the try, the exception ends the process)
RequestFails ==
    /\ pc \in {"s_get_offer_ids", "s_download_stock", "s_update_stocks", "s_update_price",
               "m_download_stock", "m_get_offer_ids", "m_update_stocks"}
    /\ failed' = "RequestException"
    /\ pc' = "done"
    /\ UNCHANGED <<watch_remnants, catalog, offer_ids, warehouse_id, clock, variant, stocks,
                   prices, campaign, batches, sent_stocks, sent_prices, pending,
                   twice_vars, divide_vars>>

Next ==
    \/ SellerGetOfferIds \/ SellerDownloadStock \/ SellerCreateStocks \/ SellerUpdateStocks
    \/ SellerCreatePrices \/ SellerUpdatePrice
    \/ MarketDownloadStock \/ MarketGetOfferIds \/ MarketCreateStocks \/ MarketUpdateStocks
    \/ MarketUploadPrices
    \/ RequestFails

Spec == Init /\ [][Next]_vars

\* the entries of all batches passed to a target, in order
SentStocks(c) == Flatten(sent_stocks[c])
SentPrices(c) == Flatten(sent_prices[c])

\* C1: in a run of seller.main in which nothing fails, every row whose code is in the
\* fetched catalog has a StockEntry among the stocks passed to update_stocks and a
\* PriceEntry among the prices passed to update_price.
C1_SellerMatchedRowsPushed ==
    (variant = "seller" /\ pc = "done" /\ failed = "") =>
        \A i \in 1..Len(watch_remnants) :
            In(watch_remnants[i].code, catalog["OZON"]) =>
                /\ \E k \in 1..Len(SentStocks("OZON")) :
                      SentStocks("OZON")[k].offer_id = watch_remnants[i].code
                /\ \E k \in 1..Len(SentPrices("OZON")) :
                      SentPrices("OZON")[k].offer_id = watch_remnants[i].code

\* C2: in a run of market.main in which nothing fails, for FBS and for DBS the stocks
\* create_stocks builds and the prices create_prices builds for the campaign's catalog
\* have been passed to update_stocks and update_price when the run ends.
C2_MarketBothSynchronized ==
    (variant = "market" /\ pc = "done" /\ failed = "") =>
        \A c \in {"FBS", "DBS"} :
            /\ SentStocks(c)
                 = market_create_stocks(watch_remnants, catalog[c], WarehouseOf(c), clock).value
            /\ SentPrices(c) = market_create_prices(watch_remnants, catalog[c]).value

----------------------------------------------------------------------------
(* The quantity rule of create_stocks on drawn quantity texts: one row of  *)
(* code "A" carries the drawn text; a row before it and a row after it     *)
(* may stand around it.                                                    *)

QtyChars == {">", "1", "0", "7", "x", "-"}
QtyTexts == SeqsUpTo(QtyChars, MaxQtyLen)

PlainRow(code) == [code |-> code, quantity |-> <<"7">>, price |-> <<"1", "0", "0">>]

InitQuantity ==
    /\ \E t \in QtyTexts, before \in {<<>>, <<PlainRow("B")>>},
          after \in {<<>>, <<PlainRow("A")>>} :
          watch_remnants = before \o <<[PlainRow("A") EXCEPT !.quantity = t]>> \o after
    /\ \E ids \in SeqsUpTo(RemnantCodes, MaxOffers) : catalog = [t \in Targets |-> ids]
    /\ variant \in {"seller", "market"}
    /\ offer_ids = <<>>
    /\ warehouse_id = "none"
    /\ clock = 0
    /\ stocks = NotCalled
    /\ prices = NotCalled
    /\ TwiceIdle
    /\ RunIdle
    /\ DivideIdle
    /\ pc = "r1_stocks"

NextQuantity == CallCreateStocks

SpecQuantity == InitQuantity /\ [][NextQuantity]_vars

\* the value of a text of decimal digits, read from the left
RECURSIVE DecimalFrom(_, _, _)
DecimalFrom(text, i, acc) ==
    IF i > Len(text) THEN acc
    ELSE DecimalFrom(text, i + 1,
             10 * acc + Cardinality({ d \in Digits : DigitValue(d) < DigitValue(text[i]) }))

IsDecimalText(text) ==
    \E sign \in {<<>>, <<"+">>, <<"-">>}, k \in 1..Len(text) :
        /\ Len(text) = Len(sign) + k
        /\ SubSeq(text, 1, Len(sign)) = sign
        /\ \A i \in (Len(sign) + 1)..Len(text) : text[i] \in Digits

ExpectedQuantity(text) ==
    IF text = <<">", "1", "0">> THEN 100
    ELSE IF text = <<"1">> THEN 0
    ELSE IF text[1] = "-" THEN 0 - DecimalFrom(text, 2, 0)
    ELSE IF text[1] = "+" THEN DecimalFrom(text, 2, 0)
    ELSE DecimalFrom(text, 1, 0)

QuantityParses(text) == text = <<">", "1", "0">> \/ text = <<"1">> \/ IsDecimalText(text)

\* the rows that find their code in offer_ids when their turn comes: fewer rows of the
\* same code stand before them than offer_ids holds occurrences of the code
MatchedRows ==
    { i \in 1..Len(watch_remnants) :
        Cardinality({ j \in 1..(i - 1) : watch_remnants[j].code = watch_remnants[i].code })
          < Cardinality({ k \in 1..Len(Cat) : Cat[k] = watch_remnants[i].code }) }

RankOf(i) == Cardinality({ j \in MatchedRows : j <= i })

\* C11: the StockEntry of a matched row carries 100 for ">10", 0 for "1" and otherwise the
\* base-10 integer value of the quantity text; when the text of a matched row is no
\* integer, create_stocks raises to its caller and returns no entries.
C11_QuantityRule ==
    pc = "r1_prices" =>
        /\ stocks.raised <=> \E i \in MatchedRows : ~QuantityParses(watch_remnants[i].quantity)
        /\ stocks.raised => stocks.value = <<>>
        /\ ~stocks.raised =>
              /\ MatchedCount = Cardinality(MatchedRows)
              /\ \A i \in MatchedRows :
                    /\ StockId(variant, stocks.value[RankOf(i)]) = watch_remnants[i].code
                    /\ StockQty(variant, stocks.value[RankOf(i)])
                         = ExpectedQuantity(watch_remnants[i].quantity)

\* C11 witness: a matched row with a text that is no integer follows a matched row that
\* parses, and create_stocks has raised
C11_Witness ==
    /\ pc = "r1_prices"
    /\ stocks.raised
    /\ Len(watch_remnants) >= 2
    /\ 1 \in MatchedRows /\ 2 \in MatchedRows
    /\ QuantityParses(watch_remnants[1].quantity)
    /\ ~QuantityParses(watch_remnants[2].quantity)

----------------------------------------------------------------------------
(* price_conversion on drawn price texts, as create_prices calls it for a  *)
(* matched row.                                                            *)

PriceChars == {"5", "9", ".", "'", "p"}

\* the texts of the docstring and of the tests ("rub" stands for the currency letters)
ExamplePrices ==
    { <<"5", "'", "9", "9", "0", ".", "0", "0", " ", "r", "u", "b", ".">>,
      <<"1", "2", ".", "5", "0">> }

PriceTexts == SeqsUpTo(PriceChars, MaxPriceLen) \cup ExamplePrices

InitPrice ==
    /\ \E t \in PriceTexts : watch_remnants = <<[PlainRow("A") EXCEPT !.price = t]>>
    /\ catalog = [t \in Targets |-> <<"A">>]
    /\ variant \in {"seller", "market"}
    /\ offer_ids = <<>>
    /\ warehouse_id = "none"
    /\ clock = 0
    /\ stocks = NotCalled
    /\ prices = NotCalled
    /\ TwiceIdle
    /\ RunIdle
    /\ DivideIdle
    /\ pc = "r1_prices"

NextPrice == CallCreatePrices

SpecPrice == InitPrice /\ [][NextPrice]_vars

RawPrice == watch_remnants[1].price

\* position of the first "." of the text, one past its end when it has none
FirstDot(text) ==
    IF \E i \in 1..Len(text) : text[i] = "."
    THEN CHOOSE i \in 1..Len(text) :
             text[i] = "." /\ \A j \in 1..(i - 1) : text[j] # "."
    ELSE Len(text) + 1

\* positions of the digits that stand before the first "."
KeptPositions(text) == { i \in 1..(FirstDot(text) - 1) : text[i] \in Digits }

\* conv is the digits of text before its first ".", in order
IsDigitsBeforeDot(conv, text) ==
    /\ Len(conv) = Cardinality(KeptPositions(text))
    /\ \A i \in KeptPositions(text) :
          conv[Cardinality({ j \in KeptPositions(text) : j <= i })] = text[i]

\* C12: price_conversion(raw) is the decimal digits, in order, of the part of raw before
\* its first "." (seller puts it in the entry as it is; market puts its integer value and
\* raises when it is empty); "5'990.00 rub." gives "5990" and "12.50" gives "12".
C12_PriceConversion ==
    pc = "between" =>
        /\ variant = "seller" =>
              /\ ~prices.raised /\ Len(prices.value) = 1
              /\ IsDigitsBeforeDot(prices.value[1].price, RawPrice)
              /\ \A i \in 1..Len(prices.value[1].price) : prices.value[1].price[i] \in Digits
              /\ RawPrice = <<"1", "2", ".", "5", "0">>
                    => prices.value[1].price = <<"1", "2">>
              /\ (Len(RawPrice) = 13 /\ RawPrice[1] = "5")
                    => prices.value[1].price = <<"5", "9", "9", "0">>
        /\ variant = "market" =>
              /\ prices.raised <=> KeptPositions(RawPrice) = {}
              /\ ~prices.raised =>
                    \E conv \in [1..Cardinality(KeptPositions(RawPrice)) -> Digits] :
                        /\ IsDigitsBeforeDot(conv, RawPrice)
                        /\ prices.value[1].price.value = DecimalFrom(conv, 1, 0)

\* C12 witness: a text with digits on both sides of its first "." and other characters
\* among them has been converted
C12_Witness ==
    /\ pc = "between"
    /\ variant = "seller"
    /\ Len(RawPrice) = 13
    /\ prices.value[1].price = <<"5", "9", "9", "0">>

----------------------------------------------------------------------------
(* The coroutines upload_stocks and upload_prices of both modules, run to  *)
(* their end by an event loop.  Offer ids are written as numbers here, so  *)
(* that catalogs longer than a chunk can be drawn: the ids 1..k in order,  *)
(* with or without one more item whose id is already in the list.          *)

\* chunk sizes of the loops in upload_prices
SellerUploadPriceBatch == 1000
MarketPriceBatch == 500

\* lengths at which a list of stocks fills whole chunks of upload_stocks in seller.py
ChunkEdges == {SellerStockBatch}

IdsTo(k) == [i \in 1..k |-> i]

ShortRows == { [code |-> c, quantity |-> q[1], price |-> q[2]] : c \in {1, 2}, q \in Cells }

UploadRemnants == SeqsUpTo(ShortRows, MaxRemnants)

UploadCatalogs ==
    SeqsUpTo({1, 2, 3}, MaxOffers)
      \cup { IdsTo(k) \o t : k \in ChunkEdges, t \in SeqsUpTo({1}, 1) }

StockBatchOf(v) == IF v = "seller" THEN SellerStockBatch ELSE MarketStockBatch
PriceBatchOf(v) == IF v = "seller" THEN SellerUploadPriceBatch ELSE MarketPriceBatch

InitUpload ==
    /\ watch_remnants \in UploadRemnants
    /\ \E ids \in UploadCatalogs : catalog = [t \in Targets |-> ids]
    /\ variant \in {"seller", "market"}
    /\ pc \in {"us_get_offer_ids", "up_get_offer_ids"}
    /\ campaign = TargetOf(variant)
    /\ offer_ids = <<>>
    /\ warehouse_id = "none"
    /\ clock = 0
    /\ stocks = NotCalled
    /\ prices = NotCalled
    /\ batches = <<>>
    /\ sent_stocks = [t \in Targets |-> <<>>]
    /\ sent_prices = [t \in Targets |-> <<>>]
    /\ failed = ""
    /\ pending = <<>>
    /\ TwiceIdle
    /\ DivideIdle

\* upload_stocks, upload_prices: offer_ids = get_offer_ids(...)
UploadGetOfferIds ==
    /\ pc \in {"us_get_offer_ids", "up_get_offer_ids"}
    /\ offer_ids' = get_offer_ids(campaign)
    /\ pc' = IF pc = "us_get_offer_ids" THEN "us_create_stocks" ELSE "up_create_prices"
    /\ UNCHANGED <<watch_remnants, catalog, warehouse_id, clock, variant, stocks, prices,
                   twice_vars, run_vars, divide_vars>>

\* upload_stocks: stocks = create_stocks(...), then list(divide(stocks, 100 or 2000))
UploadCreateStocks ==
    /\ pc = "us_create_stocks"
    /\ warehouse_id' = IF variant = "market" THEN WarehouseOf(campaign) ELSE warehouse_id
    /\ LET out == create_stocks(variant, watch_remnants, offer_ids, warehouse_id', clock)
       IN  /\ stocks' = out
           /\ offer_ids' = out.offer_ids
           /\ IF out.raised
              THEN /\ failed' = "ValueError"
                   /\ batches' = <<>>
                   /\ pc' = "done"
              ELSE /\ failed' = failed
                   /\ batches' = divide(out.value, StockBatchOf(variant))
                   /\ pc' = IF batches' = <<>> THEN "done" ELSE "us_update_stocks"
    /\ UNCHANGED <<watch_remnants, catalog, clock, variant, prices,
                   campaign, sent_stocks, sent_prices, pending, twice_vars, divide_vars>>

\* upload_stocks: update_stocks(some_stock, ...); after the last chunk the coroutine
\* returns the entries with a count other than 0, and stocks
UploadUpdateStocks ==
    /\ pc = "us_update_stocks"
    /\ sent_stocks' = [sent_stocks EXCEPT ![campaign] = Append(@, Head(batches))]
    /\ batches' = Tail(batches)
    /\ pc' = IF batches' = <<>> THEN "done" ELSE "us_update_stocks"
    /\ UNCHANGED <<watch_remnants, catalog, offer_ids, warehouse_id, clock, variant, stocks,
                   prices, campaign, sent_prices, failed, pending, twice_vars, divide_vars>>

\* upload_prices: prices = create_prices(...), then list(divide(prices, 1000 or 500))
UploadCreatePrices ==
    /\ pc = "up_create_prices"
    /\ LET out == create_prices(variant, watch_remnants, offer_ids)
       IN  /\ prices' = out
           /\ offer_ids' = out.offer_ids
           /\ IF out.raised
              THEN /\ failed' = "ValueError"
                   /\ batches' = <<>>
                   /\ pc' = "done"
              ELSE /\ failed' = failed
                   /\ batches' = divide(out.value, PriceBatchOf(variant))
                   /\ pc' = IF batches' = <<>> THEN "done" ELSE "up_update_price"
    /\ UNCHANGED <<watch_remnants, catalog, warehouse_id, clock, variant, stocks,
                   campaign, sent_stocks, sent_prices, pending, twice_vars, divide_vars>>

\* upload_prices: update_price(some_price, ...); after the last chunk the coroutine
\* returns prices
UploadUpdatePrice ==
    /\ pc = "up_update_price"
    /\ sent_prices' = [sent_prices EXCEPT ![campaign] = Append(@, Head(batches))]
    /\ batches' = Tail(batches)
    /\ pc' = IF batches' = <<>> THEN "done" ELSE "up_update_price"
    /\ UNCHANGED <<watch_remnants, catalog, offer_ids, warehouse_id, clock, variant, stocks,
                   prices, campaign, sent_stocks, failed, pending, twice_vars, divide_vars>>

\* a request of a collaborator raises out of the coroutine
UploadRequestFails ==
    /\ pc \in {"us_get_offer_ids", "up_get_offer_ids", "us_update_stocks", "up_update_price"}
    /\ failed' = "RequestException"
    /\ pc' = "done"
    /\ UNCHANGED <<watch_remnants, catalog, offer_ids, warehouse_id, clock, variant, stocks,
                   prices, campaign, batches, sent_stocks, sent_prices, pending,
                   twice_vars, divide_vars>>

NextUpload ==
    \/ UploadGetOfferIds
    \/ UploadCreateStocks \/ UploadUpdateStocks
    \/ UploadCreatePrices \/ UploadUpdatePrice
    \/ UploadRequestFails

SpecUpload == InitUpload /\ [][NextUpload]_vars

\* the offer ids a batch targets
StockIdsOf(batch) == { StockId(variant, batch[i]) : i \in 1..Len(batch) }
PriceIdsOf(batch) == { PriceId(variant, batch[i]) : i \in 1..Len(batch) }

\* C13: in one upload no offer id occurs in two different batches, of stocks or of prices.
C13_BatchesDisjoint ==
    \A c \in Targets :
        /\ \A a, b \in 1..Len(sent_stocks[c]) :
              a < b => StockIdsOf(sent_stocks[c][a]) \cap StockIdsOf(sent_stocks[c][b]) = {}
        /\ \A a, b \in 1..Len(sent_prices[c]) :
              a < b => PriceIdsOf(sent_prices[c][a]) \cap PriceIdsOf(sent_prices[c][b]) = {}

====
